---- MODULE Spec2Model ----
(***************************************************************************)
(* Model of SlicerCaseIterator.py: the iteration controller                *)
(* (SlicerCaseIteratorWidget) and the per-case logic                        *)
(* (SlicerCaseHCCIteratorLogic).                                            *)
(*                                                                         *)
(* Every handler runs to completion on the UI thread, so each handler is   *)
(* one action.  A Python exception that leaves a handler ends the handler  *)
(* where it was raised: the assignments made before it stay, the ones      *)
(* after it are not made (the host prints the traceback and goes on).      *)
(*                                                                         *)
(* Strings are sequences of tokens; "in" (substring) is contiguous         *)
(* sub-sequence, lower() maps each token to its lower-case token.          *)
(* The file is written for the interpreter it targets (dict.iteritems,     *)
(* loadVolume(..., returnNode=True)): Python 2 under Slicer 4.x.  The      *)
(* order in which a dict is iterated is the interpreter's: itemsOrder      *)
(* holds the order of images.items() and never changes.                    *)
(*                                                                         *)
(* Spec is the widget with its handlers; LoadSpec is the logic class on    *)
(* its own, constructing a case from any listing of a subject directory.   *)
(***************************************************************************)
EXTENDS Integers, Sequences, FiniteSets, TLC

\* ------------------------------------------------------------------ bounds
\* Largest number of rows of a manifest table.
MaxRows == 2
\* Largest number of nodes the scene holds when a handler returns.
MaxScene == 4
\* Largest number of nodes the scene holds when a handler returns with no batch active.
MaxLeftover == 2
\* Largest number of segmentations the user adds by hand to one scene.
MaxUserSegs == 1
\* Largest number of files the subject directories hold beyond their first listings.
MaxNewFiles == 1
\* Largest number of files of a subject directory a case is constructed from on its own.
MaxFiles == 3

\* ------------------------------------------------------------------ values
\* Python's None where a string is expected, '' and None where a node is expected.
EmptyStr == << >>
NoName == << >>
NoNode == 0

\* The names the user may type in the reader-name field ('' is the default).
ReaderNames == { EmptyStr, <<"r1">> }

\* What the output parameter widgets may hold when a handler reads them: the
\* reader name and the two save check boxes.  The form as setup leaves it
\* (no reader name, both boxes checked), or a reader name and any boxes.
UI ==
  {u \in [txtReaderName : ReaderNames, chkSaveMasks : BOOLEAN, chkSaveNewMasks : BOOLEAN] :
     (u.txtReaderName = EmptyStr) => (u.chkSaveMasks /\ u.chkSaveNewMasks)}

\* The manifest tables the user may select: a row count and whether the
\* table has a 'patient' or 'ID' column.
Tables ==
  {[rows |-> MaxRows, patient |-> TRUE], [rows |-> 1, patient |-> FALSE],
   [rows |-> MaxRows, patient |-> FALSE]}
\* No table node (None, or an empty selector).
NoTable == [rows |-> 0, patient |-> FALSE]

Rows == 0..(MaxRows - 1)

\* ------------------------------------------------------------------ strings
\* str.lower() on one token.
LowerTok(t) ==
  CASE t = "pre_T1_pre" -> "pre_t1_pre"
    [] t = "pre_T1_EA" -> "pre_t1_ea"
    [] t = "pre_T1_EA_sub" -> "pre_t1_ea_sub"
    [] t = "pre_T1_LA" -> "pre_t1_la"
    [] t = "pre_T1_LA_sub" -> "pre_t1_la_sub"
    [] t = "pre_T1_PV" -> "pre_t1_pv"
    [] t = "pre_T1_PV_sub" -> "pre_t1_pv_sub"
    [] t = "pre_ADC" -> "pre_adc"
    [] t = "post_T1_pre" -> "post_t1_pre"
    [] t = "post_T1_EA" -> "post_t1_ea"
    [] t = "post_T1_EA_sub" -> "post_t1_ea_sub"
    [] t = "post_T1_LA" -> "post_t1_la"
    [] t = "post_T1_LA_sub" -> "post_t1_la_sub"
    [] t = "post_T1_PV" -> "post_t1_pv"
    [] t = "post_T1_PV_sub" -> "post_t1_pv_sub"
    [] t = "post_ADC" -> "post_adc"
    [] t = "post_ADC_Eq_1" -> "post_adc_eq_1"
    [] t = "pre_ADC_Eq_1" -> "pre_adc_eq_1"
    [] t = "R1" -> "r1"
    [] t = "POST_T1_EA" -> "post_t1_ea"
    [] OTHER -> t

Lower(s) == [i \in 1..Len(s) |-> LowerTok(s[i])]

\* Python's "needle in hay".
Contains(hay, needle) ==
  \E k \in 0..(Len(hay) - Len(needle)) : \A m \in 1..Len(needle) : hay[k + m] = needle[m]

\* s[:s.find(tok)]: the part of s before the first tok; find returns -1 when
\* tok is absent and the slice then drops the last element.
Before(s, tok) ==
  IF \E i \in 1..Len(s) : s[i] = tok
    THEN LET first == CHOOSE i \in 1..Len(s) : s[i] = tok /\ \A j \in 1..(i - 1) : s[j] # tok
         IN SubSeq(s, 1, first - 1)
    ELSE SubSeq(s, 1, Len(s) - 1)

\* The name the host gives a volume node loaded from a file: the file name
\* without its .nii.gz extension.
VolumeNodeName(file) ==
  IF Len(file) > 0 /\ file[Len(file)] = ".nii.gz" THEN SubSeq(file, 1, Len(file) - 1) ELSE file

\* ------------------------------------------------------------------ series
\* The keys of the images dictionary in the order of their counts 0..17.
images ==
  << "pre_T1_pre", "pre_T1_EA", "pre_T1_EA_sub", "pre_T1_LA", "pre_T1_LA_sub",
     "pre_T1_PV", "pre_T1_PV_sub", "pre_ADC", "post_T1_pre", "post_T1_EA",
     "post_T1_EA_sub", "post_T1_LA", "post_T1_LA_sub", "post_T1_PV",
     "post_T1_PV_sub", "post_ADC", "post_ADC_Eq_1", "pre_ADC_Eq_1" >>

\* Scene nodes.  first/rest: the voxel content of a segmentation's first
\* segment ("none": no segment or no array can be computed, "zero": all zero,
\* "drawn": some voxel set) and of its other segments; master: the name of the
\* volume its reference geometry is bound to; disk: imported from a label
\* file; row: the case it was made for; view: the view it is shown in (0: none).
VolNode(name, row) ==
  [kind |-> "vol", name |-> name, first |-> "na", rest |-> "na", master |-> NoName,
   disk |-> FALSE, row |-> row, view |-> 0]

SegNode(name, first, master, disk, row, view) ==
  [kind |-> "seg", name |-> name, first |-> first, rest |-> "zero", master |-> master,
   disk |-> disk, row |-> row, view |-> view]

LabelmapNode(name, row) ==
  [kind |-> "labelmap", name |-> name, first |-> "na", rest |-> "na", master |-> NoName,
   disk |-> FALSE, row |-> row, view |-> 0]

\* The series names lower-cased, as the inner loop of load_data_to_placeholders
\* compares them.
imagesLower == [j \in 1..Len(images) |-> LowerTok(images[j])]

\* A variant of the volume test that wants the whole file name to be the
\* pattern; VolumeSlotsFollowPattern_amended fails under it.
VolumeHit_wholeName(file, j) == file = <<imagesLower[j], ".nii.gz">>

\* The two tests of the inner loop, for a lower-cased file name and the
\* series of count j - 1.
VolumeHit(file, j) == Contains(file, <<imagesLower[j], ".nii.gz">>)

LabelHit(file, reader, j) == Contains(file, <<imagesLower[j], "_tumor_">> \o reader \o <<".nii.gz">>)

\* The passes of the loops for the i-th file that load something, given the
\* lower-cased file name and reader name: <<i, series, 0>> loads a volume,
\* <<i, series, 1>> a label.
FileHits(i, file, reader) ==
  {<<i, j, 0>> : j \in {c \in 1..Len(images) : VolumeHit(file, c)}}
    \cup {<<i, j, 1>> : j \in {c \in 1..Len(images) : LabelHit(file, reader, c)}}

\* The passes of the loops over the listing that load something.
Hits(listing, reader) ==
  UNION {FileHits(i, Lower(listing[i]), Lower(reader)) : i \in 1..Len(listing)}

\* The orders in which images.items() may yield the series.  The source does
\* not fix it: an interpreter that keeps insertion order yields the order of
\* the literal, CPython 2.7 yields the order of its hash table (the slots the
\* 18 keys take in a table of 32, 64-bit string hash).
ItemsOrders ==
  { [j \in 1..Len(images) |-> j],
    << 16, 7, 8, 13, 2, 3, 18, 9, 4, 1, 11, 5, 12, 6, 14, 15, 10, 17 >> }

\* The place of the series j in an order of the dictionary.
ItemsRank(order, j) == CHOOSE r \in 1..Len(order) : order[r] = j

\* The place of a pass in the order of the loops: files in listing order, for
\* each file the series in the order of the dictionary, the volume test first.
HitKey(order, h) == ((h[1] - 1) * Len(images) + (ItemsRank(order, h[2]) - 1)) * 2 + h[3]

HitRank(order, hits, h) ==
  Cardinality({g \in hits : HitKey(order, g) < HitKey(order, h)}) + 1

\* The loading passes in the order of the loops.
InLoopOrder(order, hits) ==
  [r \in 1..Cardinality(hits) |-> CHOOSE h \in hits : HitRank(order, hits, h) = r]

\* The node a pass loads: a volume named after its file, or, for a label
\* file, a hidden segmentation named <series>_segment.
HitNode(listing, row, h) ==
  IF h[3] = 0
    THEN VolNode(VolumeNodeName(listing[h[1]]), row)
    ELSE SegNode(<<images[h[2]], "_segment">>, "drawn", NoName, TRUE, row, 0)

\* The [node, count] entries the passes append to raws (kind 0) and labels
\* (kind 1); a node is named by its position in the scene.
Entries(scn, passes) ==
  [r \in 1..Len(passes) |->
     [node |-> Len(scn) + r, count |-> passes[r][2] - 1, kind |-> passes[r][3]]]

\* The scene with the loaded nodes added, and the raws and labels lists.
LoadPasses(listing, row, scn, passes) ==
  [scene |-> scn \o [r \in 1..Len(passes) |-> HitNode(listing, row, passes[r])],
   raws |-> SelectSeq(Entries(scn, passes), LAMBDA e : e.kind = 0),
   labels |-> SelectSeq(Entries(scn, passes), LAMBDA e : e.kind = 1)]

\* load_data_to_placeholders
load_data_to_placeholders(order, listing, reader, row, scn) ==
  LoadPasses(listing, row, scn, InLoopOrder(order, Hits(listing, reader)))

\* A variant of the selection below in which the first entry stays;
\* LastMatchWins_amended fails under it.
LastWith_first(lst, counts) ==
  IF \E i \in 1..Len(lst) : lst[i].count \in counts
    THEN lst[CHOOSE i \in 1..Len(lst) :
               lst[i].count \in counts /\ \A k \in 1..(i - 1) : lst[k].count \notin counts].node
    ELSE NoNode

\* The node of the last entry of lst whose count is in counts, NoNode if none.
LastWith(lst, counts) ==
  IF \E i \in 1..Len(lst) : lst[i].count \in counts
    THEN lst[CHOOSE i \in 1..Len(lst) :
               lst[i].count \in counts /\ \A k \in (i + 1)..Len(lst) : lst[k].count \notin counts].node
    ELSE NoNode

\* The volume slots (by count) and the four label slots after the two loops
\* of select_placeholder_for_view.
select_placeholder_for_view(ld) ==
  [vol |-> [c \in 0..17 |-> LastWith(ld.raws, {c})],
   pre_T1_label |-> LastWith(ld.labels, {1, 3}),
   post_T1_label |-> LastWith(ld.labels, {9, 11}),
   post_ADC_label |-> LastWith(ld.labels, {15, 16}),
   pre_ADC_label |-> LastWith(ld.labels, {7, 17})]

\* correct_volumesLoad: views 0..2 swap to the alternate volume when the
\* label's name, cut before "_segment", is contained in that volume's name;
\* the fourth view's rule is commented out in the source.
correct_volumesLoad(volumesNode_list, labelmapNode_list, slots, scn) ==
  LET alt == << slots.vol[11], slots.vol[3], slots.vol[16], NoNode >>
      swap(i) == /\ i \in 1..3
                 /\ labelmapNode_list[i] # NoNode
                 /\ alt[i] # NoNode
                 /\ Contains(scn[alt[i]].name, Before(scn[labelmapNode_list[i]].name, "_segment"))
  IN [i \in 1..4 |-> IF swap(i) THEN alt[i] ELSE volumesNode_list[i]]

\* The loop over the four slice nodes of _loadImages from view i on: a view
\* without volume is left alone, a view with a volume and no label gets a new
\* segmentation with the two empty segments Target and Background, a view with
\* both shows the label's segmentation and binds it to the volume.
RECURSIVE PlaceViews(_, _, _, _, _)
PlaceViews(i, volumesLoad, labelVolumesLoad, row, scn) ==
  IF i > 4 THEN scn
  ELSE
    LET v == volumesLoad[i]
        l == labelVolumesLoad[i]
        next == IF v = NoNode THEN scn
                ELSE IF l = NoNode
                  THEN Append(scn, SegNode(scn[v].name \o <<"_segment">>, "zero", scn[v].name, FALSE, row, i))
                  ELSE [scn EXCEPT ![l].view = i, ![l].master = scn[v].name]
    IN PlaceViews(i + 1, volumesLoad, labelVolumesLoad, row, next)

\* self.volumesLoad and self.labelVolumesLoad as _loadImages first sets them.
\* The views are, in the sorted order of their names, 1: post-contrast T1,
\* 2: pre-contrast T1, 3: post-contrast ADC, 4: pre-contrast ADC.
DefaultVolumes(slots) == << slots.vol[9], slots.vol[1], slots.vol[15], slots.vol[7] >>

ViewLabels(slots) ==
  << slots.post_T1_label, slots.pre_T1_label, slots.post_ADC_label, slots.pre_ADC_label >>

\* A variant of the end of _loadImages that passes over the labels and makes
\* a new segmentation for every view with a volume; ThreeViewStates fails
\* under it.
ShowViews_noLabels(row, scn, vols, labs) ==
  [scene |-> PlaceViews(1, vols, <<NoNode, NoNode, NoNode, NoNode>>, row, scn),
   volumesLoad |-> vols, labelVolumesLoad |-> labs]

\* The end of _loadImages: the views are filled from the two lists.
ShowViews(row, scn, vols, labs) ==
  [scene |-> PlaceViews(1, vols, labs, row, scn), volumesLoad |-> vols, labelVolumesLoad |-> labs]

\* _loadImages after the slots are selected; the slots stay fields of the case.
LoadSlots(row, scn, slots) ==
  [slots |-> slots]
    @@ ShowViews(row, scn,
                 correct_volumesLoad(DefaultVolumes(slots), ViewLabels(slots), slots, scn),
                 ViewLabels(slots))

\* _loadImages after the files are loaded.
LoadViews(row, ld) == LoadSlots(row, ld.scene, select_placeholder_for_view(ld))

\* _loadImages: the scene after the load, and the case's two view lists.
LoadImages(order, listing, reader, row, scn) ==
  LoadViews(row, load_data_to_placeholders(order, listing, reader, row, scn))

\* The 18 volume slots and the four label slots as __init__ sets them: None.
NoSlots ==
  [vol |-> [c \in 0..17 |-> NoNode], pre_T1_label |-> NoNode, post_T1_label |-> NoNode,
   post_ADC_label |-> NoNode, pre_ADC_label |-> NoNode]

\* No case (currentCase is None).
NoCase ==
  [row |-> -1, sub_dir |-> -1, image_root |-> -1, reader_name |-> EmptyStr,
   mask_nodes |-> << >>, volumesLoad |-> <<0, 0, 0, 0>>, labelVolumesLoad |-> <<0, 0, 0, 0>>,
   slots |-> NoSlots]

\* The case object once _loadImages has returned li.  mask_nodes is created
\* empty and nothing fills it.
CaseOf(subject, reader, li) ==
  [case |-> [row |-> subject, sub_dir |-> subject, image_root |-> subject,
             reader_name |-> reader, mask_nodes |-> << >>,
             volumesLoad |-> li.volumesLoad, labelVolumesLoad |-> li.labelVolumesLoad,
             slots |-> li.slots],
   scene |-> li.scene]

\* SlicerCaseHCCIteratorLogic(subject, reader_name): the new case object and
\* the scene it leaves.
NewCase(order, subject, reader, listing, scn) ==
  CaseOf(subject, reader, LoadImages(order, listing, reader, subject, scn))

\* ------------------------------------------------------------------ events
\* What one handler did, in order: the calls, writes, warnings and the
\* exception that ended it.
Ev(e) == [e |-> e, row |-> -1, name |-> EmptyStr, sl |-> FALSE, sn |-> FALSE, node |-> 0]

\* closeCase(save_loaded_masks, save_new_masks, reader_name) is called on the case of a row.
EvCloseCase(row, sl, sn, rn) ==
  [e |-> "closeCase", row |-> row, name |-> rn, sl |-> sl, sn |-> sn, node |-> 0]

\* A pass of the loop of _saveMasks saves the segmentation at a scene position
\* to a file of a folder, or passes over it.
EvSave(folder, filename, node) ==
  [e |-> "save", row |-> folder, name |-> filename, sl |-> FALSE, sn |-> FALSE, node |-> node]

EvSkip(folder, node) ==
  [e |-> "skip", row |-> folder, name |-> EmptyStr, sl |-> FALSE, sn |-> FALSE, node |-> node]

\* SlicerCaseHCCIteratorLogic(patient, reader_name) is called for a row.
EvConstruct(row) ==
  [e |-> "construct", row |-> row, name |-> EmptyStr, sl |-> FALSE, sn |-> FALSE, node |-> 0]

\* ------------------------------------------------------------------ saving
\* The place of a file in a directory listing.  os.listdir fixes no order;
\* the listings are kept by name length, files of one length in the order
\* of their creation.
ListdirKey(file) == Len(file)

\* A variant of the write below with the uniquification scheme the source has
\* commented out: an existing name gets a numbered copy beside it;
\* SilentOverwrite fails under it.
WriteFile_unique(dsk, folder, filename) ==
  IF \E i \in 1..Len(dsk[folder]) : dsk[folder][i] = filename
    THEN [dsk EXCEPT ![folder] = Append(@, filename \o <<"(1)">>)]
    ELSE [dsk EXCEPT ![folder] = Append(@, filename)]

\* slicer.util.saveNode into a directory listing: a file of that name is
\* replaced where it stands, a new name takes its place in the listing.
WriteFile(dsk, folder, filename) ==
  LET old == dsk[folder]
      before == SelectSeq(old, LAMBDA f : ListdirKey(f) <= ListdirKey(filename))
      after == SelectSeq(old, LAMBDA f : ListdirKey(f) > ListdirKey(filename))
  IN IF \E i \in 1..Len(old) : old[i] = filename
       THEN dsk
       ELSE [dsk EXCEPT ![folder] = before \o <<filename>> \o after]

\* A variant of the test below that looks at every segment;
\* EmptyFirstSegmentNeverSaved fails under it.
FirstSegmentEmpty_anySegment(node) == node.first \in {"none", "zero"} /\ node.rest # "drawn"

\* np.mean(segment_array) == 0.0, with segment_array = 0.0 when the array of
\* the first segment cannot be computed (AttributeError).
FirstSegmentEmpty(node) == node.first \in {"none", "zero"}

\* The loop of _saveMasks from the k-th node of nodes on.  acc.bound says
\* whether the local variable name has been assigned in an earlier pass.
RECURSIVE SaveLoop(_, _, _, _, _, _)
SaveLoop(nodes, k, folder, readerIsNone, reader_name, acc) ==
  IF k > Len(nodes) \/ acc.exc # "" THEN acc
  ELSE
    LET node == acc.scene[nodes[k]]
    IN IF FirstSegmentEmpty(node)
         THEN SaveLoop(nodes, k + 1, folder, readerIsNone, reader_name,
                       [acc EXCEPT !.events = Append(@, EvSkip(folder, nodes[k]))])
         ELSE
           LET hasMaster == node.master # NoName
               bound == acc.bound \/ hasMaster
               name0 == IF hasMaster THEN node.master ELSE acc.name
               name1 == IF readerIsNone THEN name0 ELSE name0 \o <<"_tumor_">> \o reader_name
               filename == name1 \o <<".nii.gz">>
           IN IF ~bound
                THEN [acc EXCEPT !.exc = "UnboundLocalError",
                                 !.events = Append(@, Ev("UnboundLocalError"))]
                ELSE SaveLoop(nodes, k + 1, folder, readerIsNone, reader_name,
                       [acc EXCEPT !.bound = TRUE,
                                   !.name = name1,
                                   !.scene = Append(@, LabelmapNode(<<"LabelMapVolume">>, node.row)),
                                   !.disk = WriteFile(@, folder, filename),
                                   !.events = Append(@, EvSave(folder, filename, nodes[k]))])

\* _saveMasks(nodes, folder, reader_name) on the state st.
SaveMasks(nodes, folder, readerIsNone, reader_name, st) ==
  LET r == SaveLoop(nodes, 1, folder, readerIsNone, reader_name,
                    [name |-> EmptyStr, bound |-> FALSE, scene |-> st.scene, disk |-> st.disk,
                     events |-> st.events, exc |-> ""])
  IN [st EXCEPT !.scene = r.scene, !.disk = r.disk, !.events = r.events, !.exc = r.exc]

\* The members of keep among the scene positions n.., in scene order.
RECURSIVE InSceneOrder(_, _, _, _)
InSceneOrder(keep, n, last, out) ==
  IF n > last THEN out
  ELSE InSceneOrder(keep, n + 1, last, IF n \in keep THEN Append(out, n) ELSE out)

\* A variant of the dictionary below in which the first node of a name stays;
\* LabelsBecomeSegmentations_amended fails under it.
DictByName_first(idxs, scn) ==
  LET keep == {i \in idxs : \A k \in idxs : (k < i) => scn[k].name # scn[i].name}
  IN InSceneOrder(keep, 1, Len(scn), << >>)

\* The values of a dictionary {node.GetName(): node for node in ...} built
\* from the scene positions idxs: of the nodes of one name the last one stays.
\* The positions are kept in scene order.
DictByName(idxs, scn) ==
  LET keep == {i \in idxs : \A k \in idxs : (k > i) => scn[k].name # scn[i].name}
  IN InSceneOrder(keep, 1, Len(scn), << >>)

\* loaded_masks of closeCase: the nodes of self.mask_nodes by name.
LoadedMasks(case, scn) ==
  DictByName({case.mask_nodes[i] : i \in 1..Len(case.mask_nodes)}, scn)

\* new_masks of closeCase: the segmentation nodes of the scene whose name is
\* not a key of loaded_masks.
NewMasks(case, scn) ==
  LET loaded == LoadedMasks(case, scn)
      loadedNames == {scn[loaded[i]].name : i \in 1..Len(loaded)}
  IN DictByName({i \in 1..Len(scn) : scn[i].kind = "seg" /\ scn[i].name \notin loadedNames}, scn)

\* ------------------------------------------------------------------ state
VARIABLES
  currentIdx,       \* self.currentIdx: the cursor, -1 when no batch is active
  caseCount,        \* self.caseCount
  currentCase,      \* self.currentCase, NoCase for None
  caseColumns,      \* self.caseColumns: [isNone, patient]
  tableNode,        \* self.tableNode, NoTable for None
  shortcuts,        \* len(self.shortcuts)
  observers,        \* len(self.observers)
  gui,              \* the buttons and the input widgets
  selected,         \* self.batchTableSelector.currentNode(), NoTable for none
  scene,            \* the nodes of slicer.mrmlScene, in the order they were added
  disk,             \* the listing of each subject directory
  itemsOrder,       \* the order of images.items() under the interpreter that runs the module
  lastOp,           \* the handler that ran last, its argument and the exception that ended it
  events            \* what that handler did, in order

vars ==
  << currentIdx, caseCount, currentCase, caseColumns, tableNode, shortcuts, observers, gui,
     selected, scene, disk, itemsOrder, lastOp, events >>

\* What the handlers read and write, as one record.
Cur ==
  [currentIdx |-> currentIdx, caseCount |-> caseCount, currentCase |-> currentCase,
   caseColumns |-> caseColumns, tableNode |-> tableNode, shortcuts |-> shortcuts,
   observers |-> observers, gui |-> gui, selected |-> selected, scene |-> scene,
   disk |-> disk, itemsOrder |-> itemsOrder, events |-> << >>, exc |-> ""]

\* self.caseColumns = None
NoColumns == [isNone |-> TRUE, patient |-> FALSE]

\* The subject directory of a manifest row: the value of its patient column.
Patient(table, idx) == idx

\* The subject directories before any save.  Directory 0 holds a volume and a
\* label of reader r1 on it; the others hold one volume.
InitListing(d) ==
  IF d = 0
    THEN << <<"post_T1_EA", ".nii.gz">>, <<"post_T1_EA", "_tumor_", "r1", ".nii.gz">> >>
    ELSE << <<"pre_ADC", ".nii.gz">> >>

\* os.listdir of a subject directory; a subject outside the rows modelled has
\* a directory without series files.
Listdir(dsk, d) == IF d \in DOMAIN dsk THEN dsk[d] ELSE << >>

Warn(st, msg) == [st EXCEPT !.events = Append(@, Ev(msg))]

Raise(st, exception) == [st EXCEPT !.exc = exception, !.events = Append(@, Ev(exception))]

\* onChangeTable
onChangeTable(st) == [st EXCEPT !.gui.resetButton = (st.selected # NoTable)]

\* The second half of onEndClose: the table node is added and selected again.
Reselect(st) ==
  IF st.tableNode # NoTable
    THEN onChangeTable([st EXCEPT !.selected = st.tableNode])
    ELSE st

\* onEndClose
onEndClose(st) == Reselect([st EXCEPT !.currentCase = NoCase])

\* The observers of EndCloseEvent are called.
EndCloseEvent(st) == IF st.observers > 0 THEN onEndClose(st) ELSE st

\* slicer.mrmlScene.Clear(0): every node leaves the scene, the table selector
\* loses its node, and the observers of EndCloseEvent are called.
SceneClear(st) ==
  EndCloseEvent(onChangeTable([st EXCEPT !.scene = << >>, !.selected = NoTable,
                                         !.events = Append(@, Ev("clear"))]))

\* The start of closeCase: reader_name '' becomes None and the print that
\* follows adds it to a string.
PrintReader(reader_name, st) ==
  IF reader_name = EmptyStr THEN Raise(st, "TypeError") ELSE st

\* A variant of the save block that saves whatever its flag says;
\* NoFlagsNoFiles fails under it.
SaveBlock_always(flag, nodes, folder, reader_name, st) ==
  IF st.exc = "" /\ Len(nodes) > 0
    THEN SaveMasks(nodes, folder, FALSE, reader_name, st)
    ELSE st

\* One of the two save blocks of closeCase.
SaveBlock(flag, nodes, folder, reader_name, st) ==
  IF st.exc = "" /\ flag /\ Len(nodes) > 0
    THEN SaveMasks(nodes, folder, FALSE, reader_name, st)
    ELSE st

\* The end of closeCase.
ClearBlock(st) == IF st.exc = "" THEN SceneClear(st) ELSE st

\* closeCase(save_loaded_masks, save_new_masks, reader_name) of case.
closeCase(case, save_loaded_masks, save_new_masks, reader_name, st) ==
  ClearBlock(
    SaveBlock(save_new_masks, NewMasks(case, st.scene), case.image_root, reader_name,
      SaveBlock(save_loaded_masks, LoadedMasks(case, st.scene), case.image_root, reader_name,
        PrintReader(reader_name,
          [st EXCEPT !.events = Append(@, EvCloseCase(case.row, save_loaded_masks,
                                                      save_new_masks, reader_name))]))))

\* The two registrations of _setGUIstate(csv_loaded=True).
ConnectShortcuts(st) ==
  IF st.shortcuts = 0 THEN [st EXCEPT !.shortcuts = 2]
  ELSE Warn(st, "Shortcuts already initialized!")

AddObserver(st) ==
  IF st.observers = 0 THEN [st EXCEPT !.observers = 1]
  ELSE Warn(st, "Event observer already initialized!")

\* _setGUIstate(csv_loaded)
setGUIstate(csv_loaded, st) ==
  IF csv_loaded
    THEN [AddObserver(ConnectShortcuts(st)) EXCEPT
            !.gui.resetText = "Reset", !.gui.previousButton = TRUE,
            !.gui.nextButton = TRUE, !.gui.inputs = FALSE]
    ELSE [st EXCEPT !.gui.resetButton = (st.selected # NoTable),
                    !.gui.resetText = "Start Batch",
                    !.shortcuts = 0, !.observers = 0,
                    !.gui.previousButton = FALSE, !.gui.nextButton = FALSE,
                    !.gui.inputs = TRUE]

\* The GUI lock set before a load.
LockGUI(st) ==
  [st EXCEPT !.gui.previousButton = FALSE, !.gui.nextButton = FALSE,
             !.gui.resetButton = FALSE, !.gui.nextText = "Loading..."]

UnlockGUI(st) ==
  [st EXCEPT !.gui.previousButton = TRUE, !.gui.nextButton = TRUE,
             !.gui.resetButton = TRUE, !.gui.nextText = "Next Case"]

\* _startBatch from the row count on: the state it leaves and whether it
\* returned True.
StartRows(start, st) ==
  IF st.caseCount < start
    THEN [st |-> Warn(st, "No cases to process"), ok |-> FALSE]
    ELSE [st |-> [setGUIstate(TRUE, [st EXCEPT !.caseColumns.patient = st.tableNode.patient])
                    EXCEPT !.currentIdx = start - 1],
          ok |-> TRUE]

\* _startBatch once caseColumns and tableNode are set.
StartTable(start, st) ==
  IF st.tableNode = NoTable
    THEN [st |-> Raise(st, "AttributeError"), ok |-> FALSE]
    ELSE StartRows(start, [st EXCEPT !.caseCount = st.tableNode.rows])

\* _startBatch(start)
startBatch(start, st) ==
  StartTable(start, [st EXCEPT !.caseColumns = [isNone |-> FALSE, patient |-> FALSE],
                               !.tableNode = st.selected])

\* A variant of the end-of-batch test that lets the cursor rest one past the
\* last row; CursorInRange fails under it.
PastLastRow_strict(st) == st.currentIdx > st.caseCount

\* The end-of-batch test of loadCase.
PastLastRow(st) == st.currentIdx >= st.caseCount

\* The end-of-batch branch of loadCase.
EndBatch(st) ==
  Warn([setGUIstate(FALSE, st) EXCEPT !.currentIdx = -1, !.tableNode = NoTable], "All Done!")

\* self.currentCase = SlicerCaseHCCIteratorLogic(patient, self.txtReaderName.text)
SetCase(st, nc) ==
  [st EXCEPT !.events = Append(@, EvConstruct(st.currentIdx)),
             !.currentCase = nc.case, !.scene = nc.scene]

\* loadCase under the GUI lock: without a patient column the local variable
\* patient is unassigned when the case is constructed.
ConstructCase(txtReaderName, st) ==
  IF ~st.caseColumns.patient THEN Raise(st, "UnboundLocalError")
  ELSE UnlockGUI(SetCase(st, NewCase(st.itemsOrder,
                                     Patient(st.tableNode, st.currentIdx), txtReaderName,
                                     Listdir(st.disk, Patient(st.tableNode, st.currentIdx)),
                                     st.scene)))

\* The end of loadCase once the cursor has moved: past the last row the batch
\* ends, otherwise the row's case is constructed under the GUI lock.
LoadRow(txtReaderName, st) ==
  IF PastLastRow(st) THEN EndBatch(st) ELSE ConstructCase(txtReaderName, LockGUI(st))

\* A variant of the test below that rejects nothing; RetreatRejected fails
\* under it.
BeforeFirst_never(idx_change, st) == FALSE

\* The test of loadCase that rejects a move before the first row.
BeforeFirst(idx_change, st) == st.currentIdx + idx_change < 0

\* loadCase closes the open case.  ui holds what the handler reads from the
\* output parameter widgets: txtReaderName.text and whether chkSaveMasks and
\* chkSaveNewMasks are checked.
CloseOpenCase(ui, st) ==
  IF st.currentCase # NoCase
    THEN closeCase(st.currentCase, ui.chkSaveMasks, ui.chkSaveNewMasks, ui.txtReaderName, st)
    ELSE st

\* loadCase moves the cursor and loads its row.
MoveCursor(idx_change, ui, st) ==
  IF st.exc # "" THEN st
  ELSE LoadRow(ui.txtReaderName, [st EXCEPT !.currentIdx = @ + idx_change])

\* loadCase from the close of the open case on.
CloseAndLoad(idx_change, ui, st) == MoveCursor(idx_change, ui, CloseOpenCase(ui, st))

\* A variant of loadCase that closes the open case before it tests the move;
\* RejectedRetreatChangesNothing fails under it.
loadCase_closesFirst(idx_change, ui, st) ==
  IF st.currentIdx < 0 THEN st
  ELSE IF BeforeFirst(idx_change, st)
    THEN Warn(CloseOpenCase(ui, st), "First case selected, cannot select previous case!")
    ELSE CloseAndLoad(idx_change, ui, st)

\* loadCase(idx_change)
loadCase(idx_change, ui, st) ==
  IF st.currentIdx < 0 THEN st
  ELSE IF BeforeFirst(idx_change, st)
    THEN Warn(st, "First case selected, cannot select previous case!")
    ELSE CloseAndLoad(idx_change, ui, st)

\* A variant of the reset that leaves the shortcuts and the observer in
\* place; RegisteredIffActive fails under it.
ResetBatch_keepsRegistrations(st) ==
  [st EXCEPT !.currentCase = NoCase, !.caseColumns = NoColumns, !.currentIdx = -1]

\* The else branch of onReset and the body of cleanup.
ResetBatch(st) ==
  [setGUIstate(FALSE, st) EXCEPT !.currentCase = NoCase, !.caseColumns = NoColumns,
                                 !.currentIdx = -1]

\* The if branch of onReset after _startBatch has returned r.
LoadStart(ui, r) == IF r.ok THEN loadCase(0, ui, r.st) ELSE r.st

\* onReset, with the value of the start-position spin box.
onReset(start, ui, st) ==
  IF st.currentIdx < 0
    THEN LoadStart(ui, startBatch(start, LockGUI(st)))
    ELSE ResetBatch(st)

\* A variant of onNext without the idle guards of onNext and loadCase;
\* IdleAdvanceNoOp fails under it.
onNext_unguarded(ui, st) == CloseAndLoad(1, ui, st)

\* onNext
onNext(ui, st) == IF st.currentIdx < 0 THEN st ELSE loadCase(1, ui, st)

\* onPrevious
onPrevious(ui, st) == IF st.currentIdx < 0 THEN st ELSE loadCase(-1, ui, st)

\* cleanup
cleanup(st) == IF st.currentIdx >= 0 THEN ResetBatch(st) ELSE st

\* ------------------------------------------------------------------ actions
\* The state a handler leaves, and the record of the handler for the history.
Apply(r, op, arg) ==
  /\ currentIdx' = r.currentIdx
  /\ caseCount' = r.caseCount
  /\ currentCase' = r.currentCase
  /\ caseColumns' = r.caseColumns
  /\ tableNode' = r.tableNode
  /\ shortcuts' = r.shortcuts
  /\ observers' = r.observers
  /\ gui' = r.gui
  /\ selected' = r.selected
  /\ scene' = r.scene
  /\ disk' = r.disk
  /\ itemsOrder' = r.itemsOrder
  /\ events' = r.events
  /\ lastOp' = [op |-> op, arg |-> arg, exc |-> r.exc]

Init ==
  /\ currentIdx = -1
  /\ caseCount = 0
  /\ currentCase = NoCase
  /\ caseColumns = NoColumns
  /\ tableNode = NoTable
  /\ shortcuts = 0
  /\ observers = 0
  /\ gui = [previousButton |-> FALSE, nextButton |-> FALSE, resetButton |-> FALSE,
            nextText |-> "Next Case", resetText |-> "Start Batch", inputs |-> TRUE]
  /\ selected = NoTable
  /\ scene = << >>
  /\ disk = [d \in Rows |-> InitListing(d)]
  /\ itemsOrder \in ItemsOrders
  /\ lastOp = [op |-> "setup", arg |-> 0, exc |-> ""]
  /\ events = << >>

\* The number of files the directories 0..d hold beyond their first listings.
RECURSIVE NewFiles(_, _)
NewFiles(dsk, d) ==
  IF d < 0 THEN 0 ELSE Len(dsk[d]) - Len(InitListing(d)) + NewFiles(dsk, d - 1)

\* The subject directories and the scene have room for what the handler leaves.
Fits(r) ==
  /\ NewFiles(r.disk, MaxRows - 1) <= MaxNewFiles
  /\ Len(r.scene) <= IF r.currentIdx < 0 THEN MaxLeftover ELSE MaxScene

\* The user loads or selects a manifest table (onLoadBatch, onChangeTable).
OnLoadBatch(t) ==
  /\ gui.inputs
  /\ t # selected
  /\ \E r \in {onChangeTable([Cur EXCEPT !.selected = t])} : Apply(r, "loadBatch", 0)

\* The Start Batch / Reset button.
OnReset(start, ui) ==
  \E r \in {onReset(start, ui, Cur)} :
    Fits(r) /\ Apply(r, IF currentIdx < 0 THEN "start" ELSE "reset", start)

\* The Next Case button and Ctrl+N.
OnNext(ui) ==
  \E r \in {onNext(ui, Cur)} : Fits(r) /\ Apply(r, "advance", 1)

\* The Previous Case button and Ctrl+P.
OnPrevious(ui) ==
  \E r \in {onPrevious(ui, Cur)} : Fits(r) /\ Apply(r, "advance", -1)

\* The module widget is torn down.
Cleanup == \E r \in {cleanup(Cur)} : Fits(r) /\ Apply(r, "cleanup", 0)

\* The user closes the scene.
SceneClose ==
  /\ scene # << >>
  /\ \E r \in {SceneClear(Cur)} : Apply(r, "sceneClose", 0)

UserSegs(scn) == {i \in 1..Len(scn) : scn[i].kind = "seg" /\ ~scn[i].disk /\ scn[i].view = 0}

\* The user adds a segmentation in the Segment Editor, with or without a
\* master volume, and may draw in it.
AddSegmentation(first, master) ==
  /\ currentCase # NoCase
  /\ Cardinality(UserSegs(scene)) < MaxUserSegs
  /\ Len(scene) < MaxScene
  /\ master = NoName \/ \E i \in 1..Len(scene) :
                           scene[i].kind = "vol" /\ scene[i].name = master /\ scene[i].row = currentCase.row
  /\ Apply([Cur EXCEPT !.scene = Append(@, SegNode(<<"Segmentation">>, first, master, FALSE, currentCase.row, 0))],
           "edit", 0)

\* The user draws in or erases the segments of a segmentation the current
\* case loaded or created.
EditSegment(i, first, rest) ==
  /\ currentCase # NoCase
  /\ i \in 1..Len(scene)
  /\ i \notin UserSegs(scene)
  /\ scene[i].kind = "seg"
  /\ scene[i].row = currentCase.row
  /\ << first, rest >> # << scene[i].first, scene[i].rest >>
  /\ Apply([Cur EXCEPT !.scene[i].first = first, !.scene[i].rest = rest], "edit", 0)

MasterNames == { NoName, <<"post_T1_EA">>, <<"pre_ADC">> }

Next ==
  \/ \E t \in Tables : OnLoadBatch(t)
  \/ \E start \in 1..(MaxRows + 1), ui \in {u \in UI : u.chkSaveMasks /\ u.chkSaveNewMasks} :
       OnReset(start, ui)
  \/ \E ui \in UI : OnNext(ui)
  \/ \E ui \in UI : OnPrevious(ui)
  \/ Cleanup
  \/ SceneClose
  \/ \E first \in {"none", "drawn"}, master \in MasterNames : AddSegmentation(first, master)
  \/ \E i \in 1..Len(scene), first \in {"zero", "drawn"}, rest \in {"zero", "drawn"} :
       EditSegment(i, first, rest)

Spec == Init /\ [][Next]_vars

\* ------------------------------------------------------------------ one case on its own
\* The logic class used without the widget: a case is constructed from a
\* subject directory, for a reader name, in an empty scene.
\*
\* The files a subject directory may hold: volumes and labels of the two
\* post-contrast T1 series and the two pre-contrast ADC series, a volume file
\* spelled in upper case, a file whose name holds two label patterns, a label
\* of a reader called pre_ADC, a label of a series no view shows.
SeriesFiles ==
  { <<"post_T1_EA", ".nii.gz">>,
    <<"post_T1_PV", "_tumor_", "r1", ".nii.gz">>,
    <<"POST_T1_EA", ".nii.gz">>,
    <<"post_T1_LA", ".nii.gz">>,
    <<"post_T1_EA", "_tumor_", "r1", ".nii.gz">>,
    <<"post_T1_LA", "_tumor_", "r1", ".nii.gz">>,
    <<"post_T1_EA", "_tumor_", "r1", ".nii.gz", "post_T1_LA", "_tumor_", "r1", ".nii.gz">>,
    <<"post_T1_EA", "_tumor_", "pre_ADC", ".nii.gz">>,
    <<"pre_ADC", ".nii.gz">>,
    <<"pre_ADC_Eq_1", ".nii.gz">>,
    <<"pre_ADC_Eq_1", "_tumor_", "r1", ".nii.gz">> }

\* The listings os.listdir may return: files of different names, in any order.
Listings ==
  {l \in UNION {[1..n -> SeriesFiles] : n \in 0..MaxFiles} :
     \A a, b \in 1..Len(l) : (a # b) => (l[a] # l[b])}

\* The reader names a case may be constructed for.
LoadReaders == ReaderNames \cup { <<"pre_ADC">> }

LoadInit ==
  /\ currentIdx = -1
  /\ caseCount = 0
  /\ currentCase = NoCase
  /\ caseColumns = NoColumns
  /\ tableNode = NoTable
  /\ shortcuts = 0
  /\ observers = 0
  /\ gui = [previousButton |-> FALSE, nextButton |-> FALSE, resetButton |-> FALSE,
            nextText |-> "Next Case", resetText |-> "Start Batch", inputs |-> TRUE]
  /\ selected = NoTable
  /\ scene = << >>
  /\ \E l \in Listings : disk = [d \in Rows |-> IF d = 0 THEN l ELSE << >>]
  /\ itemsOrder \in ItemsOrders
  /\ lastOp = [op |-> "setup", arg |-> 0, exc |-> ""]
  /\ events = << >>

\* SlicerCaseHCCIteratorLogic(subject, reader_name) for the subject directory 0.
ConstructLogic(reader_name) ==
  /\ scene = << >>
  /\ \E nc \in {NewCase(itemsOrder, 0, reader_name, Listdir(disk, 0), scene)} :
       /\ currentCase' = nc.case
       /\ scene' = nc.scene
  /\ lastOp' = [op |-> "construct", arg |-> 0, exc |-> ""]
  /\ events' = << EvConstruct(0) >>
  /\ UNCHANGED << currentIdx, caseCount, caseColumns, tableNode, shortcuts, observers, gui,
                  selected, disk, itemsOrder >>

LoadNext ==
  \/ \E reader_name \in LoadReaders : ConstructLogic(reader_name)
  \/ SceneClose

LoadSpec == LoadInit /\ [][LoadNext]_vars

\* ------------------------------------------------------------------ properties
\* The handler that ran last left an event e.
HasEv(evs, e) == \E k \in 1..Len(evs) : evs[k].e = e

\* The handler that ran last saved the segmentation at scene position i.
Saved(evs, i) == \E k \in 1..Len(evs) : evs[k].e = "save" /\ evs[k].node = i

\* C1: an advance by d in {+1, -1} from cursor i with an open case and
\* 0 <= i+d < caseCount first calls closeCase on the open case with the
\* save-loaded flag, the save-new flag and the reader name of the widgets, then
\* constructs the case of row i+d, and ends with cursor i+d and that case as
\* the current case.
AdvanceClosesThenLoads ==
  [][(/\ lastOp'.op = "advance"
      /\ currentIdx >= 0
      /\ currentCase # NoCase
      /\ currentIdx + lastOp'.arg \in 0..(caseCount - 1))
     => /\ \E ui \in UI : \E j, k \in 1..Len(events') :
             /\ j < k
             /\ events'[j] = EvCloseCase(currentCase.row, ui.chkSaveMasks,
                                         ui.chkSaveNewMasks, ui.txtReaderName)
             /\ events'[k] = EvConstruct(currentIdx + lastOp'.arg)
        /\ currentIdx' = currentIdx + lastOp'.arg
        /\ currentCase' # NoCase
        /\ currentCase'.row = currentIdx + lastOp'.arg]_vars

\* An advance from the first of two rows, with a case open, has ended in
\* closeCase: the cursor has not moved and no case has been constructed.
AdvanceClosesThenLoads_aborted ==
  /\ lastOp = [op |-> "advance", arg |-> 1, exc |-> "TypeError"]
  /\ currentIdx = 0
  /\ caseCount = 2
  /\ currentCase # NoCase
  /\ ~HasEv(events, "construct")

\* C2: at most one case's volumes and segmentations are in the scene: every
\* construction of a case happens on a scene that is empty or that the same
\* handler has cleared before, and the nodes a handler leaves in the scene
\* were all made for one case.
OneCaseInScene ==
  [][/\ \A k \in 1..Len(events') :
          events'[k].e = "construct"
            => (scene = << >> \/ \E j \in 1..(k - 1) : events'[j].e = "clear")
     /\ \A i, j \in 1..Len(scene') : scene'[i].row = scene'[j].row]_vars

\* A start-batch has loaded a case into a scene that holds another case's nodes.
OneCaseInScene_broken ==
  /\ lastOp.op = "start"
  /\ HasEv(events, "construct")
  /\ ~HasEv(events, "clear")
  /\ \E i, j \in 1..Len(scene) : scene[i].row # scene[j].row

\* C3: with an open case and the cursor on the last row, advance(+1) closes
\* the case and leaves the controller in the no-batch state: cursor -1, no
\* current case, no shortcut, no observer, Previous and Next disabled, and no
\* error raised.
EndOfBatch ==
  [][(/\ lastOp'.op = "advance"
      /\ lastOp'.arg = 1
      /\ currentIdx >= 0
      /\ currentIdx = caseCount - 1
      /\ currentCase # NoCase)
     => /\ HasEv(events', "closeCase")
        /\ lastOp'.exc = ""
        /\ currentIdx' = -1
        /\ currentCase' = NoCase
        /\ shortcuts' = 0
        /\ observers' = 0
        /\ ~gui'.previousButton
        /\ ~gui'.nextButton]_vars

\* An advance from the last row, with a case open, has ended in closeCase
\* and the batch is still active.
EndOfBatch_aborted ==
  /\ lastOp = [op |-> "advance", arg |-> 1, exc |-> "TypeError"]
  /\ currentIdx = caseCount - 1
  /\ currentIdx > 0
  /\ currentCase # NoCase
  /\ shortcuts = 2

\* C4: advance(-1) with an active batch and cursor 0 logs a warning and leaves
\* the cursor at 0.
RetreatRejected ==
  [][(lastOp'.op = "advance" /\ lastOp'.arg = -1 /\ currentIdx = 0)
     => /\ currentIdx' = 0
        /\ HasEv(events', "First case selected, cannot select previous case!")]_vars

\* A retreat at cursor 0 with a case open has been rejected.
RetreatRejected_reached ==
  /\ lastOp = [op |-> "advance", arg |-> -1, exc |-> ""]
  /\ currentIdx = 0
  /\ currentCase # NoCase
  /\ HasEv(events, "First case selected, cannot select previous case!")

\* C5: with no batch active, advance(+1) and advance(-1) change nothing: the
\* cursor, the current case, the scene, the buttons, the shortcuts, the
\* observers and the files are as before, and the handler does nothing.
IdleAdvanceNoOp ==
  [][(lastOp'.op = "advance" /\ currentIdx < 0)
     => /\ UNCHANGED << currentIdx, caseCount, currentCase, caseColumns, tableNode,
                        shortcuts, observers, gui, selected, scene, disk, itemsOrder >>
        /\ events' = << >>
        /\ lastOp'.exc = ""]_vars

\* An advance has run with no batch active, a table selected and nodes in the
\* scene.
IdleAdvanceNoOp_reached ==
  /\ lastOp.op = "advance"
  /\ currentIdx < 0
  /\ events = << >>
  /\ selected # NoTable
  /\ scene # << >>

\* C6: the cursor is -1 or a row of the table, 0 <= cursor < caseCount, and a
\* case is only constructed for a row index in that range.
CursorInRange ==
  /\ currentIdx = -1 \/ currentIdx \in 0..(caseCount - 1)
  /\ \A k \in 1..Len(events) :
       events[k].e = "construct" => events[k].row \in 0..(caseCount - 1)

\* An advance has constructed the case of the last row of a table of several rows.
CursorInRange_reached ==
  /\ lastOp.op = "advance"
  /\ currentIdx > 0
  /\ currentIdx = caseCount - 1
  /\ HasEv(events, "construct")

\* C7: the two shortcuts and the scene-close observer are registered exactly
\* when a batch is active, and there are never more than two shortcuts or
\* more than one observer.
RegisteredIffActive ==
  /\ (currentIdx >= 0) => (shortcuts = 2 /\ observers = 1)
  /\ (currentIdx < 0) => (shortcuts = 0 /\ observers = 0)
  /\ shortcuts <= 2
  /\ observers <= 1

\* A batch has been reset, with its shortcuts and observer removed.
RegisteredIffActive_reached ==
  /\ lastOp.op = "reset"
  /\ currentIdx < 0
  /\ shortcuts = 0
  /\ observers = 0

\* C8: start-batch at position s on a table of caseCount rows: with
\* s <= caseCount the batch is active with cursor s-1 and the case of row s-1
\* loaded; with s > caseCount a warning is logged, the cursor stays -1 and
\* nothing is registered.  Reset on an active batch leaves cursor -1, no
\* current case, no column map, no shortcut and no observer, and writes no file.
StartAndReset ==
  [][/\ (lastOp'.op = "start" /\ selected # NoTable /\ lastOp'.arg <= selected.rows)
          => /\ currentIdx' = lastOp'.arg - 1
             /\ currentCase' # NoCase
             /\ currentCase'.row = lastOp'.arg - 1
     /\ (lastOp'.op = "start" /\ selected # NoTable /\ lastOp'.arg > selected.rows)
          => /\ HasEv(events', "No cases to process")
             /\ currentIdx' = -1
             /\ shortcuts' = 0
             /\ observers' = 0
     /\ (lastOp'.op = "reset")
          => /\ currentIdx' = -1
             /\ currentCase' = NoCase
             /\ caseColumns' = NoColumns
             /\ shortcuts' = 0
             /\ observers' = 0
             /\ disk' = disk
             /\ ~HasEv(events', "save")]_vars

\* A start-batch at a position within the table has ended in an exception
\* with the cursor set and no case loaded.
StartAndReset_startRaised ==
  /\ lastOp = [op |-> "start", arg |-> 1, exc |-> "UnboundLocalError"]
  /\ caseCount >= 1
  /\ currentIdx = 0
  /\ currentCase = NoCase

\* C9: on a close that runs to its end, a segmentation that was loaded from
\* disk is saved exactly when the save-loaded flag is set and every other
\* segmentation exactly when the save-new flag is set (for the segmentations
\* that can be saved: a first segment with voxels, a master volume, a name no
\* other segmentation has).
FlagsSelectSets ==
  [][\A k \in 1..Len(events') :
       (events'[k].e = "closeCase" /\ HasEv(events', "clear"))
         => \A i \in 1..Len(scene) :
              (/\ scene[i].kind = "seg"
               /\ scene[i].first = "drawn"
               /\ scene[i].master # NoName
               /\ \A j \in 1..Len(scene) :
                    (j # i /\ scene[j].kind = "seg") => scene[j].name # scene[i].name)
                => (Saved(events', i)
                      <=> IF scene[i].disk THEN events'[k].sl ELSE events'[k].sn)]_vars

\* C10: a segmentation whose first segment is all zero, or has no array, is
\* never saved, whatever the flags and its other segments.
EmptyFirstSegmentNeverSaved ==
  [][\A i \in 1..Len(scene) :
       (scene[i].kind = "seg" /\ scene[i].first \in {"none", "zero"})
         => ~Saved(events', i)]_vars

\* A close has passed over one segmentation and saved another.
EmptyFirstSegmentNeverSaved_reached ==
  /\ lastOp.op = "advance"
  /\ HasEv(events, "closeCase")
  /\ HasEv(events, "skip")
  /\ HasEv(events, "save")

\* The positions of the save events among evs.
SaveEvents(evs) == {m \in 1..Len(evs) : evs[m].e = "save"}

\* The output naming convention: <masterVolumeName>[_tumor_<reader>].nii.gz.
OutputName(master, reader) ==
  master \o (IF reader = EmptyStr THEN << >> ELSE <<"_tumor_">> \o reader) \o <<".nii.gz">>

\* The segmentations of a scene whose first segment has voxels.
DrawnSegs(scn) == {i \in 1..Len(scn) : scn[i].kind = "seg" /\ scn[i].first = "drawn"}

\* C11: a closeCase with both save flags set, on a case with N segmentations
\* loaded from disk and M created in the session of which E have an empty
\* first segment, writes exactly N+M-E files into the case's directory, each
\* named by the output naming convention after its segmentation's master volume.
RoundTripFileCount ==
  [][\A k \in 1..Len(events') :
       (events'[k].e = "closeCase" /\ events'[k].sl /\ events'[k].sn)
         => /\ Cardinality({events'[m].name : m \in SaveEvents(events')})
                 = Cardinality(DrawnSegs(scene))
            /\ \A m \in SaveEvents(events') :
                 /\ events'[m].row = events'[k].row
                 /\ events'[m].name
                      = OutputName(scene[events'[m].node].master, events'[k].name)]_vars

\* A closeCase with both flags set and the default reader name has ended
\* before its first save: the case's drawn segmentation is still in the scene
\* and no file has been written.
RoundTripFileCount_noFile ==
  /\ lastOp.exc = "TypeError"
  /\ \E k \in 1..Len(events) : events[k] = EvCloseCase(currentCase.row, TRUE, TRUE, EmptyStr)
  /\ \E i \in DrawnSegs(scene) : scene[i].master # NoName /\ scene[i].row = currentCase.row
  /\ SaveEvents(events) = {}
  /\ \A d \in Rows : disk[d] = InitListing(d)

\* C12: every closeCase call ends with the scene cleared, whatever the two
\* save flags, the reader name and the outcome of the saves: the call is
\* followed by the clearing of the scene in the same handler, and no node of
\* the closed case is left.
CloseClearsScene ==
  [][\A k \in 1..Len(events') :
       events'[k].e = "closeCase"
         => /\ \E j \in (k + 1)..Len(events') : events'[j].e = "clear"
            /\ \A i \in 1..Len(scene') : scene'[i].row # events'[k].row]_vars

\* A closeCase call has ended with the nodes of its case still in the scene.
CloseClearsScene_notCleared ==
  /\ HasEv(events, "closeCase")
  /\ ~HasEv(events, "clear")
  /\ lastOp.exc # ""
  /\ scene # << >>
  /\ \A i \in 1..Len(scene) : scene[i].row = currentCase.row

\* A file of that name is in the listing of a directory.
InListing(dsk, d, filename) == \E n \in 1..Len(dsk[d]) : dsk[d][n] = filename

\* C13: every save of a closeCase writes into the case's subject directory a
\* file named <masterVolumeName>_tumor_<reader>.nii.gz when the reader name is
\* non-empty and <masterVolumeName>.nii.gz when it is empty, and with either
\* kind of reader name the close runs to its end without an exception.
SavedUnderConvention ==
  [][\A k \in 1..Len(events') :
       events'[k].e = "closeCase"
         => /\ \A m \in SaveEvents(events') :
                 /\ events'[m].row = events'[k].row
                 /\ scene[events'[m].node].master # NoName
                 /\ events'[m].name = OutputName(scene[events'[m].node].master, events'[k].name)
                 /\ InListing(disk', events'[k].row, events'[m].name)
            /\ HasEv(events', "clear")
            /\ lastOp'.exc = ""]_vars

\* A closeCase with the empty reader name has not completed: the segmentation
\* drawn on a master volume has no file <masterVolumeName>.nii.gz beside the
\* volume's own.
SavedUnderConvention_emptyReader ==
  /\ lastOp.exc = "TypeError"
  /\ \E k \in 1..Len(events) : events[k].e = "closeCase" /\ events[k].name = EmptyStr
  /\ \E i \in DrawnSegs(scene) :
       /\ scene[i].master # NoName
       /\ Cardinality({n \in 1..Len(disk[scene[i].row]) :
                         disk[scene[i].row][n] = OutputName(scene[i].master, EmptyStr)}) = 1

\* The segmentations of a scene that no other segmentation shares its name with.
SoleOfName(scn) ==
  {i \in 1..Len(scn) :
     /\ scn[i].kind = "seg"
     /\ \A j \in 1..Len(scn) : (j # i /\ scn[j].kind = "seg") => scn[j].name # scn[i].name}

\* C14: when a closeCase that saves the new segmentations under a reader name
\* meets a segmentation with a drawn first segment and no master volume, that
\* save alone is passed over: no file is written for it under any name, no
\* exception leaves _saveMasks (the close goes on to clear the scene), and
\* every other drawn segmentation is saved under its own master volume's name.
MissingMasterSkipped ==
  [][\A k \in 1..Len(events') :
       (events'[k].e = "closeCase" /\ events'[k].sn /\ events'[k].name # EmptyStr)
         => \A i \in DrawnSegs(scene) \cap SoleOfName(scene) :
              (scene[i].master = NoName)
                => /\ ~Saved(events', i)
                   /\ HasEv(events', "clear")
                   /\ \A j \in DrawnSegs(scene) \cap SoleOfName(scene) :
                        (scene[j].master # NoName)
                          => \E m \in SaveEvents(events') :
                               /\ events'[m].node = j
                               /\ events'[m].name
                                    = OutputName(scene[j].master, events'[k].name)]_vars

\* A closeCase under a reader name has ended in _saveMasks with an
\* UnboundLocalError at a drawn segmentation without master volume, before
\* the scene was cleared.
MissingMasterSkipped_raised ==
  /\ lastOp.exc = "UnboundLocalError"
  /\ \E k \in 1..Len(events) : events[k].e = "closeCase" /\ events[k].name # EmptyStr
  /\ ~HasEv(events, "clear")
  /\ \E i \in DrawnSegs(scene) : scene[i].master = NoName

\* C15: a start-batch within the rows of a table that has neither a 'patient'
\* nor an 'ID' column, and an advance of a batch on such a table, degrade
\* without aborting: no exception propagates, and while the batch is active
\* afterwards the cursor's row is the current case's row and the Previous,
\* Next and Reset buttons are enabled again.
MissingColumnsDegrade ==
  [][(\/ /\ lastOp'.op = "start"
         /\ selected # NoTable
         /\ ~selected.patient
         /\ lastOp'.arg <= selected.rows
      \/ /\ lastOp'.op = "advance"
         /\ currentIdx >= 0
         /\ ~caseColumns.patient)
     => /\ lastOp'.exc = ""
        /\ (currentIdx' >= 0)
             => /\ currentCase' # NoCase
                /\ currentCase'.row = currentIdx'
                /\ gui'.previousButton
                /\ gui'.nextButton
                /\ gui'.resetButton]_vars

\* A start-batch on a table without patient column has ended in an exception
\* with the batch active, no case loaded and the three buttons still locked.
MissingColumnsDegrade_locked ==
  /\ lastOp.op = "start"
  /\ lastOp.exc = "UnboundLocalError"
  /\ tableNode # NoTable
  /\ ~tableNode.patient
  /\ currentIdx >= 0
  /\ currentCase = NoCase
  /\ ~gui.previousButton
  /\ ~gui.nextButton
  /\ ~gui.resetButton
  /\ gui.nextText = "Loading..."

\* ------------------------------------------------------------------ properties of one case
\* The directory the case was constructed from, the case's slots and the
\* volume a slot holds.
Dir == disk[0]

Slots == currentCase.slots

\* A lower-cased file name holds the volume pattern, or the label pattern, of a series.
HoldsVolumePattern(file, j) == Contains(Lower(file), <<LowerTok(images[j]), ".nii.gz">>)

HoldsLabelPattern(file, reader, j) ==
  Contains(Lower(file), <<LowerTok(images[j]), "_tumor_">> \o Lower(reader) \o <<".nii.gz">>)

\* The volume slot of the series j holds the volume loaded from the n-th file.
SlotFromFile(j, n) ==
  /\ Slots.vol[j - 1] # NoNode
  /\ scene[Slots.vol[j - 1]].kind = "vol"
  /\ scene[Slots.vol[j - 1]].name = VolumeNodeName(Dir[n])

\* Each of the 18 volume slots is populated exactly when some file of the
\* directory holds its pattern, case-insensitively.
SlotIffPattern ==
  \A j \in 1..Len(images) :
    (Slots.vol[j - 1] # NoNode) <=> \E n \in 1..Len(Dir) : HoldsVolumePattern(Dir[n], j)

\* C16: after a load each volume slot is populated if and only if the
\* directory holds a file whose lower-cased name contains <name>.nii.gz, and a
\* file that matches the label pattern <name>_tumor_<reader>.nii.gz populates
\* no volume slot.
VolumeSlotsFollowPattern ==
  (lastOp.op = "construct")
    => /\ SlotIffPattern
       /\ \A n \in 1..Len(Dir) :
            (\E j \in 1..Len(images) : HoldsLabelPattern(Dir[n], currentCase.reader_name, j))
              => \A c \in 1..Len(images) : ~SlotFromFile(c, n)

\* C16 as the code has it: each volume slot is populated if and only if a file
\* holds its pattern, and a populated slot holds a volume loaded from a file
\* that holds the slot's own pattern; a label file fills a volume slot exactly
\* when its name holds that pattern too, as the label of a reader whose name
\* ends in a series name does.
VolumeSlotsFollowPattern_amended ==
  (lastOp.op = "construct")
    => /\ SlotIffPattern
       /\ \A c \in 1..Len(images) :
            (Slots.vol[c - 1] # NoNode)
              => \E n \in 1..Len(Dir) : HoldsVolumePattern(Dir[n], c) /\ SlotFromFile(c, n)
       /\ \A n \in 1..Len(Dir), c \in 1..Len(images) :
            (/\ SlotFromFile(c, n)
             /\ \E j \in 1..Len(images) : HoldsLabelPattern(Dir[n], currentCase.reader_name, j))
              => HoldsVolumePattern(Dir[n], c)

\* The label file of the reader pre_ADC has been loaded as that reader's
\* label and fills the pre_ADC volume slot, beside a slot filled from a volume
\* file spelled in upper case.
VolumeSlotsFollowPattern_labelFills ==
  /\ lastOp.op = "construct"
  /\ \E n \in 1..Len(Dir) :
       /\ HoldsLabelPattern(Dir[n], currentCase.reader_name, 10)
       /\ SlotFromFile(8, n)
  /\ \E n \in 1..Len(Dir) : Dir[n] = <<"POST_T1_EA", ".nii.gz">> /\ SlotFromFile(10, n)
  /\ Slots.vol[11] = NoNode

\* The files of the directory that hold the volume pattern of the series j.
VolumeMatches(j) == {n \in 1..Len(Dir) : HoldsVolumePattern(Dir[n], j)}

\* The counts whose labels go to the label slot of each view: post-contrast
\* T1, pre-contrast T1, post-contrast ADC, pre-contrast ADC.
LabelSlotCounts == << {9, 11}, {1, 3}, {15, 16}, {7, 17} >>

\* The label matches <<file, series>> of the directory that go to the label
\* slot of the view v.
LabelMatches(v) ==
  {m \in {<<n, c + 1>> : n \in 1..Len(Dir), c \in LabelSlotCounts[v]} :
     HoldsLabelPattern(Dir[m[1]], currentCase.reader_name, m[2])}

\* The order of the series table as it is written.
TableOrder == [j \in 1..Len(images) |-> j]

\* The match met last: the last file in listing order and, within that file,
\* the last series in an order of the series.
LastLabelMatch(v, order) ==
  CHOOSE m \in LabelMatches(v) :
    \A o \in LabelMatches(v) :
      o[1] < m[1] \/ (o[1] = m[1] /\ ItemsRank(order, o[2]) <= ItemsRank(order, m[2]))

\* Each volume slot holds the volume of the last file, in listing order, that
\* holds its pattern.
LastVolumeFileWins ==
  \A j \in 1..Len(images) :
    (VolumeMatches(j) # {})
      => SlotFromFile(j, CHOOSE n \in VolumeMatches(j) : \A o \in VolumeMatches(j) : o <= n)

\* Each label slot holds the segmentation of the last label match, with the
\* series of one file taken in the given order.
LastLabelWins(order) ==
  \A v \in 1..4 :
    (LabelMatches(v) # {})
      => /\ ViewLabels(Slots)[v] # NoNode
         /\ scene[ViewLabels(Slots)[v]].name
              = <<images[LastLabelMatch(v, order)[2]], "_segment">>

\* C17: when several files hold the same volume pattern, or several label
\* matches go to one view's label slot, the slot holds the match met last in
\* directory-listing order and, within one file, last in the order of the
\* series table; no earlier match is the slot's final value.
LastMatchWins ==
  (lastOp.op = "construct") => (LastVolumeFileWins /\ LastLabelWins(TableOrder))

\* C17 as the code has it: within one file the last match is the last in the
\* order in which the interpreter iterates the images dictionary, which is
\* the order of the table only under an interpreter that keeps insertion order.
LastMatchWins_amended ==
  (lastOp.op = "construct") => (LastVolumeFileWins /\ LastLabelWins(itemsOrder))

\* Two files hold the post_T1_EA volume pattern and one file holds the label
\* patterns of post_T1_EA and post_T1_LA; under the hash order of the
\* dictionary the post-contrast T1 label slot holds the post_T1_EA label.
LastMatchWins_twoMatches ==
  /\ lastOp.op = "construct"
  /\ Cardinality(VolumeMatches(10)) = 2
  /\ \E n \in 1..Len(Dir) : {<<n, 10>>, <<n, 12>>} \subseteq LabelMatches(1)
  /\ itemsOrder # TableOrder
  /\ scene[Slots.post_T1_label].name = <<"post_T1_EA", "_segment">>

\* The count of each view's alternate series: late-arterial T1 for the two T1
\* views, the Eq_1 series for the two ADC views.
AlternateCount == << 11, 3, 16, 17 >>

\* The view's label is named X_segment and the view's alternate volume is
\* loaded under a name that contains X.
DrawnOnAlternate(v) ==
  /\ ViewLabels(Slots)[v] # NoNode
  /\ Slots.vol[AlternateCount[v]] # NoNode
  /\ \E x \in {<<images[j]>> : j \in 1..Len(images)} :
       /\ scene[ViewLabels(Slots)[v]].name = x \o <<"_segment">>
       /\ Contains(scene[Slots.vol[AlternateCount[v]]].name, x)

\* C18: in each of the four views, when the view's segmentation is named
\* X_segment and the view's alternate volume is loaded under a name containing
\* X, the background of the view is the alternate volume, not the default one.
AlternateBackground ==
  (lastOp.op = "construct")
    => \A v \in 1..4 :
         DrawnOnAlternate(v) => currentCase.volumesLoad[v] = Slots.vol[AlternateCount[v]]

\* The pre-contrast ADC view shows the pre_ADC volume although its label is
\* pre_ADC_Eq_1_segment and the pre_ADC_Eq_1 volume is loaded.
AlternateBackground_preADC ==
  /\ lastOp.op = "construct"
  /\ DrawnOnAlternate(4)
  /\ scene[Slots.pre_ADC_label].name = <<"pre_ADC_Eq_1", "_segment">>
  /\ Slots.vol[7] # NoNode
  /\ currentCase.volumesLoad[4] = Slots.vol[7]
  /\ currentCase.volumesLoad[4] # Slots.vol[17]

\* The segmentations shown in the view v, and the segmentations a load made
\* new for the volume at scene position vol.
ShownIn(v) == {i \in 1..Len(scene) : scene[i].kind = "seg" /\ scene[i].view = v}

MadeFor(vol) ==
  {i \in 1..Len(scene) :
     /\ scene[i].kind = "seg"
     /\ ~scene[i].disk
     /\ scene[i].name = scene[vol].name \o <<"_segment">>}

\* The state of the view v after a load, by its volume and its label.
ViewState(v, vol, lab) ==
  IF vol = NoNode
    THEN ShownIn(v) = {}
    ELSE IF lab = NoNode
      THEN /\ \E i \in 1..Len(scene) : ShownIn(v) = {i} /\ MadeFor(vol) = {i}
           /\ \A i \in ShownIn(v) :
                /\ scene[i].first = "zero"
                /\ scene[i].rest = "zero"
                /\ scene[i].master = scene[vol].name
      ELSE /\ ShownIn(v) = {lab}
           /\ scene[lab].disk
           /\ scene[lab].master = scene[vol].name
           /\ \A i \in MadeFor(vol) : scene[i].view # v

\* C19: after the substitution each of the four views is in one of three
\* states.  No volume: no background and no segmentation made or shown for
\* the view.  A volume and no label: exactly one new segmentation named
\* <volumeName>_segment, with the empty segments Target and Background, bound
\* to the volume and shown in the view.  A volume and a label: the label's
\* segmentation shown in that view only and bound to the volume, and no new
\* segmentation made.
ThreeViewStates ==
  (lastOp.op = "construct")
    => \A v \in 1..4 :
         /\ ViewState(v, currentCase.volumesLoad[v], currentCase.labelVolumesLoad[v])
         /\ currentCase.labelVolumesLoad[v] = ViewLabels(Slots)[v]
         /\ currentCase.volumesLoad[v] \in {DefaultVolumes(Slots)[v], Slots.vol[AlternateCount[v]]}

\* A load has left one view with a volume and its label, one view with a
\* volume and a new empty segmentation, and two views without volume.
ThreeViewStates_reached ==
  /\ lastOp.op = "construct"
  /\ currentCase.volumesLoad[1] # NoNode
  /\ currentCase.labelVolumesLoad[1] # NoNode
  /\ currentCase.volumesLoad[4] # NoNode
  /\ currentCase.labelVolumesLoad[4] = NoNode
  /\ currentCase.volumesLoad[2] = NoNode
  /\ currentCase.volumesLoad[3] = NoNode
  /\ Cardinality(ShownIn(1)) = 1
  /\ Cardinality(ShownIn(4)) = 1

\* The names a handler saved into the directory d.
SavedNames(evs, d) == {evs[m].name : m \in {n \in SaveEvents(evs) : evs[n].row = d}}

\* C20: saving avoids no collision: every save goes to the path of its
\* computed name, a name saved twice in one closeCase or already present in
\* the directory stays one file, and no warning is logged; a directory grows
\* only by the saved names it did not hold, so fewer files may be added than
\* segmentations were saved.
SilentOverwrite ==
  [][/\ \A d \in Rows :
          /\ Len(disk'[d]) = Len(disk[d])
                              + Cardinality({f \in SavedNames(events', d) : ~InListing(disk, d, f)})
          /\ \A f \in SavedNames(events', d) :
               Cardinality({n \in 1..Len(disk'[d]) : disk'[d][n] = f}) = 1
     /\ ~HasEv(events', "Filename exists! Generating unique name...")]_vars

\* A close has saved two segmentations under one name that the directory
\* already held: two saves, no file more than before.
SilentOverwrite_twoSavesOneFile ==
  /\ lastOp.op = "advance"
  /\ lastOp.exc = ""
  /\ \E a, b \in SaveEvents(events) :
       /\ a # b
       /\ events[a].name = events[b].name
       /\ events[a].row = events[b].row
       /\ events[a].node # events[b].node
  /\ \A d \in Rows : disk[d] = InitListing(d)

\* ------------------------------------------------------------------ properties of the batch
\* The output parameter widgets as setup leaves them: no reader name, both
\* save boxes checked.
DefaultUI == [txtReaderName |-> EmptyStr, chkSaveMasks |-> TRUE, chkSaveNewMasks |-> TRUE]

\* C21: from an active batch with cursor i, repeated advance(+1) reaches the
\* no-batch state after exactly caseCount - i advances, for every reader name
\* and every setting of the save flags: each advance(+1) of an active batch
\* leaves the row count as it is and moves the cursor to i + 1, or to -1 when
\* i + 1 is the row count.
AdvancesToEnd ==
  [][(lastOp'.op = "advance" /\ lastOp'.arg = 1 /\ currentIdx >= 0)
     => /\ caseCount' = caseCount
        /\ currentIdx' = IF currentIdx + 1 < caseCount THEN currentIdx + 1 ELSE -1]_vars

\* An advance(+1) under the default reader name has left the batch active
\* with its cursor where it was, and a further advance(+1) under that reader
\* name leaves the cursor, the case, the scene and the files as they are.
AdvancesToEnd_stuck ==
  /\ lastOp = [op |-> "advance", arg |-> 1, exc |-> "TypeError"]
  /\ currentIdx >= 0
  /\ currentCase # NoCase
  /\ \E r \in {onNext(DefaultUI, Cur)} :
       /\ r.exc = "TypeError"
       /\ r.currentIdx = currentIdx
       /\ r.caseCount = caseCount
       /\ r.currentCase = currentCase
       /\ r.scene = scene
       /\ r.disk = disk

\* C22: the loading lock is always released: once a start-batch on a selected
\* table, or an advance that moved the cursor to a row to load, has returned,
\* the Next button text is no longer 'Loading...' and the Reset/Start button
\* is enabled again when a table is selected, also when the start-batch failed
\* because the start position exceeds the number of rows.
LockReleased ==
  [][(\/ lastOp'.op = "start" /\ selected # NoTable
      \/ /\ lastOp'.op = "advance"
         /\ currentIdx >= 0
         /\ currentIdx' >= 0
         /\ currentIdx' = currentIdx + lastOp'.arg)
     => /\ gui'.nextText # "Loading..."
        /\ (selected' # NoTable) => gui'.resetButton]_vars

\* A start-batch at a position past the last row of the selected table has
\* returned with no batch active and the lock in place: the three buttons
\* disabled and the Next button reading 'Loading...'.
LockReleased_startPastRows ==
  /\ lastOp.op = "start"
  /\ lastOp.exc = ""
  /\ lastOp.arg > caseCount
  /\ HasEv(events, "No cases to process")
  /\ currentIdx = -1
  /\ selected # NoTable
  /\ ~gui.resetButton
  /\ ~gui.previousButton
  /\ ~gui.nextButton
  /\ gui.nextText = "Loading..."

\* The volumes a subject directory holds before any save, by node name.
VolumesOf(d) == {VolumeNodeName(InitListing(d)[n]) : n \in 1..Len(InitListing(d))}

\* C23: every file closeCase writes lies in the subject directory of the case
\* in which the saved segmentation was loaded or created: a segmentation of
\* one case is never written into another case's directory, whatever
\* start-batch, advance, reset and scene-close events came before.
SavedIntoOwnDirectory ==
  [][\A m \in SaveEvents(events') :
       scene[events'[m].node].row = events'[m].row]_vars

\* An advance has written into the directory of row 1 the segmentation of a
\* volume that only the directory of row 0 holds.
SavedIntoOwnDirectory_foreign ==
  /\ lastOp.op = "advance"
  /\ \E m \in SaveEvents(events) :
       /\ events[m].row = 1
       /\ InListing(disk, 1, events[m].name)
       /\ \E master \in VolumesOf(0) \ VolumesOf(1) :
            events[m].name = OutputName(master, <<"r1">>)

\* C24: a rejected retreat, advance(-1) at cursor 0, leaves everything but the
\* log unchanged: closeCase is not called, the open case stays the current
\* case, no file is written, the scene is not cleared, and the buttons, the
\* shortcuts and the observers are as before; the handler only logs the
\* warning.
RejectedRetreatChangesNothing ==
  [][(lastOp'.op = "advance" /\ lastOp'.arg = -1 /\ currentIdx = 0)
     => /\ UNCHANGED << currentIdx, caseCount, currentCase, caseColumns, tableNode,
                        shortcuts, observers, gui, selected, scene, disk, itemsOrder >>
        /\ events' = << Ev("First case selected, cannot select previous case!") >>
        /\ lastOp'.exc = ""]_vars

\* A retreat has been rejected at cursor 0 while the open case held a drawn
\* segmentation that a close under the reader name r1 would have saved: the
\* case is still open, its nodes are in the scene and no file has been added.
RejectedRetreatChangesNothing_reached ==
  /\ lastOp = [op |-> "advance", arg |-> -1, exc |-> ""]
  /\ events = << Ev("First case selected, cannot select previous case!") >>
  /\ currentIdx = 0
  /\ currentCase # NoCase
  /\ shortcuts = 2
  /\ observers = 1
  /\ \E i \in DrawnSegs(scene) : scene[i].master # NoName /\ scene[i].row = currentCase.row
  /\ \A d \in Rows : disk[d] = InitListing(d)

\* C25: a scene-close event during an active batch, raised by the user or by
\* the scene clear of closeCase, leaves no current case, the manifest table
\* added to the scene and selected again, and the cursor, the row count and
\* the column map as they were.  The advance that follows a scene close by
\* the user calls no closeCase and writes no file, and loads the row the
\* cursor moves to.  The table is in the scene after every advance of an
\* active batch, the one that ends the batch included.
SceneCloseKeepsBatch ==
  [][/\ (lastOp'.op = "sceneClose" /\ currentIdx >= 0)
          => /\ currentCase' = NoCase
             /\ tableNode' = tableNode
             /\ selected' = tableNode
             /\ selected' # NoTable
             /\ UNCHANGED << currentIdx, caseCount, caseColumns >>
     /\ (lastOp'.op = "advance" /\ currentIdx >= 0 /\ HasEv(events', "clear"))
          => /\ HasEv(events', "closeCase")
             /\ caseCount' = caseCount
             /\ caseColumns' = caseColumns
             /\ (currentIdx' >= 0) => tableNode' = tableNode
     /\ (lastOp'.op = "advance" /\ currentIdx >= 0)
          => (selected' = tableNode /\ selected' # NoTable)
     /\ (lastOp'.op = "advance" /\ currentIdx >= 0 /\ lastOp.op = "sceneClose")
          => /\ ~HasEv(events', "closeCase")
             /\ SaveEvents(events') = {}
             /\ disk' = disk
             /\ (currentIdx + lastOp'.arg \in 0..(caseCount - 1))
                  => /\ HasEv(events', "construct")
                     /\ currentIdx' = currentIdx + lastOp'.arg
                     /\ currentCase' # NoCase
                     /\ currentCase'.row = currentIdx']_vars

\* The user has closed the scene during a batch on a table of two rows
\* without patient column, with the cursor on the first row; the advance that
\* follows calls no closeCase, moves the cursor to the second row and loads
\* nothing.
SceneCloseKeepsBatch_nothingLoaded ==
  /\ lastOp.op = "sceneClose"
  /\ tableNode # NoTable
  /\ ~tableNode.patient
  /\ selected = tableNode
  /\ currentIdx = 0
  /\ caseCount = 2
  /\ currentCase = NoCase
  /\ \E r \in {onNext(DefaultUI, Cur)} :
       /\ r.exc = "UnboundLocalError"
       /\ r.currentIdx = 1
       /\ r.currentCase = NoCase
       /\ ~HasEv(r.events, "closeCase")
       /\ ~HasEv(r.events, "construct")

\* ------------------------------------------------------------------ labels of one case
\* The segmentations of the scene that were imported from label files, and
\* those named after the series j.
LabelNodes == {i \in 1..Len(scene) : scene[i].kind = "seg" /\ scene[i].disk}

LabelNodesOf(j) == {i \in LabelNodes : scene[i].name = <<images[j], "_segment">>}

\* The files of the directory that hold the label pattern of the series j
\* for the reader of the case.
LabelFiles(j) == {n \in 1..Len(Dir) : HoldsLabelPattern(Dir[n], currentCase.reader_name, j)}

\* The segmentations in the label slots of the four views.
SlotLabels == {ViewLabels(Slots)[v] : v \in 1..4} \ {NoNode}

\* The segmentations closeCase considers for saving: loaded_masks and new_masks.
ConsideredForSaving ==
  {LoadedMasks(currentCase, scene)[k] : k \in 1..Len(LoadedMasks(currentCase, scene))}
    \cup {NewMasks(currentCase, scene)[k] : k \in 1..Len(NewMasks(currentCase, scene))}

\* Every label match of any of the 18 series is in the scene as a
\* segmentation named <series>_segment, and nothing else is.
EveryLabelImported ==
  /\ \A j \in 1..Len(images) : Cardinality(LabelNodesOf(j)) = Cardinality(LabelFiles(j))
  /\ LabelNodes = UNION {LabelNodesOf(j) : j \in 1..Len(images)}

\* Only the labels of the eight series go to a label slot, each to the slot
\* of its view, and a slot is filled exactly when its view has a label match.
EightSeriesToSlots ==
  \A v \in 1..4 :
    /\ (ViewLabels(Slots)[v] # NoNode) <=> (LabelMatches(v) # {})
    /\ (ViewLabels(Slots)[v] # NoNode)
         => /\ ViewLabels(Slots)[v] \in LabelNodes
            /\ \E c \in LabelSlotCounts[v] : ViewLabels(Slots)[v] \in LabelNodesOf(c + 1)
            /\ scene[ViewLabels(Slots)[v]].view \in {0, v}

\* A label in no slot is shown in no view and bound to no master volume.
UnassignedStayHidden ==
  \A i \in LabelNodes \ SlotLabels : scene[i].view = 0 /\ scene[i].master = NoName

\* C26: every label match of any of the 18 series becomes a hidden
\* segmentation named <series>_segment in the scene; only the labels of eight
\* series go to a view's label slot; a label of another series, and a label
\* displaced by a later match for its view, stays in the scene invisible and
\* without master volume, and is among the segmentations closeCase considers
\* for saving.
LabelsBecomeSegmentations ==
  (lastOp.op = "construct")
    => /\ EveryLabelImported
       /\ EightSeriesToSlots
       /\ UnassignedStayHidden
       /\ \A i \in LabelNodes \ SlotLabels : i \in ConsideredForSaving

\* C26 as the code has it: closeCase collects the segmentations by name, so
\* of the segmentations of one name only the one added last is considered
\* for saving; a label outside the slots is considered exactly when no later
\* segmentation has its name.
LabelsBecomeSegmentations_amended ==
  (lastOp.op = "construct")
    => /\ EveryLabelImported
       /\ EightSeriesToSlots
       /\ UnassignedStayHidden
       /\ \A i \in LabelNodes \ SlotLabels :
            (i \in ConsideredForSaving)
              <=> \A k \in (i + 1)..Len(scene) :
                    (scene[k].kind = "seg") => scene[k].name # scene[i].name

\* A label of post_T1_PV, which no view shows, and two labels of post_T1_EA
\* from two files are in the scene; the later post_T1_EA label is in the
\* post-contrast T1 slot, the earlier one is displaced and not considered for
\* saving, the post_T1_PV label is.
LabelsBecomeSegmentations_displaced ==
  /\ lastOp.op = "construct"
  /\ Cardinality(LabelNodesOf(10)) = 2
  /\ Slots.post_T1_label \in LabelNodesOf(10)
  /\ \E i \in LabelNodesOf(10) \ SlotLabels : i \notin ConsideredForSaving
  /\ \E i \in LabelNodesOf(14) : i \notin SlotLabels /\ i \in ConsideredForSaving

\* ------------------------------------------------------------------ closing without saving
\* The closeCase calls of a handler made with both save flags clear and a
\* reader name.
PlainCloses(evs) ==
  {k \in 1..Len(evs) :
     evs[k].e = "closeCase" /\ ~evs[k].sl /\ ~evs[k].sn /\ evs[k].name # EmptyStr}

\* C27: with both save flags clear and a non-empty reader name, closing a
\* case writes no file, whatever segmentations the scene holds: nothing is
\* saved or passed over, no directory changes, no exception is raised, the
\* scene is cleared of every node it held, and the advance goes on to the row
\* the cursor moves to, or ends the batch past the last row.
NoFlagsNoFiles ==
  [][(PlainCloses(events') # {})
     => /\ lastOp'.op = "advance"
        /\ lastOp'.exc = ""
        /\ SaveEvents(events') = {}
        /\ ~HasEv(events', "skip")
        /\ disk' = disk
        /\ \A k \in PlainCloses(events') :
             /\ events'[k].row = currentCase.row
             /\ \E j \in (k + 1)..Len(events') : events'[j].e = "clear"
        /\ \A i \in 1..Len(scene') : scene'[i].row # currentCase.row
        /\ IF currentIdx + lastOp'.arg < caseCount
             THEN /\ currentIdx' = currentIdx + lastOp'.arg
                  /\ HasEv(events', "construct")
                  /\ currentCase' # NoCase
                  /\ currentCase'.row = currentIdx'
                  /\ \A i \in 1..Len(scene') : scene'[i].row = currentIdx'
             ELSE /\ currentIdx' = -1
                  /\ currentCase' = NoCase
                  /\ scene' = << >>]_vars

\* An advance from the first row has closed its case under the reader name
\* r1 with both flags clear, cleared the scene and loaded the second row; the
\* directories are as they were before any save.
NoFlagsNoFiles_reached ==
  /\ lastOp = [op |-> "advance", arg |-> 1, exc |-> ""]
  /\ \E k \in 1..Len(events) :
       /\ events[k] = EvCloseCase(0, FALSE, FALSE, <<"r1">>)
       /\ \E j \in (k + 1)..Len(events) : events[j].e = "clear"
  /\ HasEv(events, "construct")
  /\ currentIdx = 1
  /\ currentCase # NoCase
  /\ \A d \in Rows : disk[d] = InitListing(d)

====
